---- MODULE Spec2Model ----
(***************************************************************************)
(* Model of the TikTok ad budget adjuster: utils.retry, the                *)
(* TikTokMarketingAPI client (tik_tok_api.py) and the orchestrator         *)
(* main() (main.py).                                                       *)
(*                                                                         *)
(* The program is sequential.  Its control state is an explicit call       *)
(* stack of frames [fn, pc, ep, arg]; `ret` is the value or exception a    *)
(* callee hands to the frame below it.  Every Python call pushes a frame   *)
(* and fails with RecursionError once the stack holds RecursionLimit       *)
(* frames.  The remote platform and the wall clock are the environment.    *)
(*                                                                         *)
(* Money amounts and ratios are exact rationals <<n, d>> with d > 0 (the   *)
(* source computes in binary floating point; on the bounded inputs used    *)
(* here the comparisons agree).                                            *)
(***************************************************************************)
EXTENDS Integers, Sequences, FiniteSets

(* ------------------------------ bounds -------------------------------- *)
\* Frames the interpreter allows (sys.getrecursionlimit() is 1000 in CPython).
RecursionLimit == 8
\* The clock runs over 0, delay, ..., MaxTicks * delay and saturates there.
MaxTicks == 1
\* Longest campaign list / report list the platform returns.
MaxCampaigns == 1
MaxRows == 2
\* retry() driven directly (as test_utils.py does): max_retries in 0..MaxRetriesArg,
\* operations scripted by at most MaxScript outcomes (the last one repeats).
MaxRetriesArg == 2
MaxScript == 3
\* The BudgetPolicy functions and the eligibility filter driven directly:
\* payment rates 0..MaxPolicyRate, spends 0..MaxPolicySpend, budgets
\* 0, 10, ..., 10 * MaxBudgetTens, thresholds 0..MaxThreshold.
MaxPolicyRate == 6
MaxPolicySpend == 3
MaxBudgetTens == 10
MaxThreshold == 1

(* -------------------------- program constants ------------------------- *)
TARGET_ROAS == <<3, 2>>
MAX_ADJUSTMENT == <<3, 4>>
MIN_BUDGET == 50
MIN_SPEND == 0
MIN_PAYMENT_RATE == 0
ADVERTISER_ID == "7041312028410778178"
\* retry(..., max_retries=2, delay=300, exception_types=(TikTokAPIError,))
MAIN_MAX_RETRIES == 2
delay == 300
MAIN_EXCEPTION_TYPES == {"TikTokAPIError"}
\* timedelta(hours=1), in seconds
TOKEN_LIFETIME == 3600

\* Python's None in a string-valued and in a number-valued field.
None == "None"
NoneNum == -1

(* ------------------------------ helpers ------------------------------- *)
Min(a, b) == IF a <= b THEN a ELSE b

Horizon == MaxTicks * delay
Times == {n * delay : n \in 0..MaxTicks}

\* Exact rationals.
RLess(a, b) == a[1] * b[2] < b[1] * a[2]
REq(a, b) == a[1] * b[2] = b[1] * a[2]
RLeq(a, b) == RLess(a, b) \/ REq(a, b)
RAdd(a, b) == <<a[1] * b[2] + b[1] * a[2], a[2] * b[2]>>
RSub(a, b) == <<a[1] * b[2] - b[1] * a[2], a[2] * b[2]>>
RMul(a, b) == <<a[1] * b[1], a[2] * b[2]>>
RDiv(a, b) == IF b[1] > 0 THEN <<a[1] * b[2], a[2] * b[1]>> ELSE <<-(a[1] * b[2]), -(a[2] * b[1])>>
RMax(a, b) == IF RLess(a, b) THEN b ELSE a
RMin(a, b) == IF RLess(b, a) THEN b ELSE a
RNeg(a) == <<-a[1], a[2]>>
RInt(n) == <<n, 1>>

(* --------------------------- BudgetPolicy ----------------------------- *)
\* utils.calculate_roas: total_complete_payment_rate / spend (spend # 0).
calculate_roas(campaign) == <<campaign.total_complete_payment_rate, campaign.spend>>

\* The clamp without its lower side.
calculate_adjustment_factor_no_floor(roas) ==
    RMin(RDiv(RSub(roas, TARGET_ROAS), TARGET_ROAS), MAX_ADJUSTMENT)

\* utils.calculate_adjustment_factor
calculate_adjustment_factor(roas) ==
    LET adjustment == RDiv(RSub(roas, TARGET_ROAS), TARGET_ROAS)
    IN  RMax(RMin(adjustment, MAX_ADJUSTMENT), RNeg(MAX_ADJUSTMENT))

\* The product without the floor, and the floor of a product without `1 +`.
calculate_new_budget_unclamped(current_budget, adjustment_factor) ==
    RMul(RInt(current_budget), RAdd(RInt(1), adjustment_factor))
calculate_new_budget_scaled(current_budget, adjustment_factor) ==
    RMax(RMul(RInt(current_budget), adjustment_factor), RInt(MIN_BUDGET))

\* utils.calculate_new_budget
calculate_new_budget(current_budget, adjustment_factor) ==
    LET new_budget == RMul(RInt(current_budget), RAdd(RInt(1), adjustment_factor))
    IN  RMax(new_budget, RInt(MIN_BUDGET))

\* round(new_budget, 2), as a whole number of hundredths (ties do not occur
\* on the inputs used).
Round2(r) == (2 * 100 * r[1] + r[2]) \div (2 * r[2])

(* ------------------------------ state --------------------------------- *)
VARIABLES
    stack,             \* call stack, innermost frame last
    ret,               \* what the callee that just ended handed back
    _access_token,     \* TikTokMarketingAPI._access_token
    _token_expiry,     \* TikTokMarketingAPI._token_expiry (seconds) or NoneNum
    now,               \* datetime.now(timezone.utc), in seconds
    func,              \* retry: func
    max_retries,       \* retry: max_retries
    exception_types,   \* retry: exception_types
    attempt,           \* retry: attempt
    invocations,       \* retry: times func was invoked by the current retry call
    sleeps,            \* retry: times time.sleep(delay) was called by the current retry call
    kwargs,            \* retry: **kwargs, handed to func
    script,            \* the scripted operation's outcomes (retry driven directly)
    campaign_budgets,  \* get_campaign_performance: campaign_budgets
    stats_list,        \* get_campaign_performance: stats_list
    campaigns,         \* main: campaigns
    idx,               \* main: position of the for loop in campaigns (1-based)
    calls,             \* per endpoint, the requests handed to the HTTP session so far
    last_request,      \* the latest request handed to the HTTP session
    printed,           \* number of lines main has printed
    last_line,         \* the latest line main has printed
    update_invocations \* times update_campaign_budget has been called so far

vars == <<stack, ret, _access_token, _token_expiry, now, func, max_retries,
          exception_types, attempt, invocations, sleeps, kwargs, script,
          campaign_budgets, stats_list, campaigns, idx, calls, last_request,
          printed, last_line, update_invocations>>

clientVars == <<_access_token, _token_expiry>>
retryVars == <<func, max_retries, exception_types, attempt, invocations, sleeps, kwargs>>
sentVars == <<calls, last_request>>
outputVars == <<printed, last_line>>
mainVars == <<campaigns, idx, outputVars>>
\* locals of get_campaign_performance; they are empty while it is not running
perfVars == <<campaign_budgets, stats_list>>

(* ------------------------- frames and results ------------------------- *)
Frame(fn, pc, ep, arg) == [fn |-> fn, pc |-> pc, ep |-> ep, arg |-> arg]
\* Values of every kind are records, so that any two of them can be compared:
\* a string is [str |-> s], a list [list |-> l], a JSON body or a dict is the
\* record of its fields, no value at all is NoArg.
NoArg == [none |-> TRUE]
Str(s) == [str |-> s]
List(l) == [list |-> l]
EmptyMap == [id \in {} |-> 0]

Top == stack[Len(stack)]
At(fn, pc) == stack # <<>> /\ Top.fn = fn /\ Top.pc = pc
Pop == SubSeq(stack, 1, Len(stack) - 1)
SetPc(pc) == [stack EXCEPT ![Len(stack)].pc = pc]

NoExc == [cls |-> "", msg |-> <<>>, id |-> 0]
NoRet == [tag |-> "none", val |-> NoArg, exc |-> NoExc]
Val(v) == [tag |-> "val", val |-> v, exc |-> NoExc]
ExcRet(e) == [tag |-> "exc", val |-> NoArg, exc |-> e]

\* A new exception object; id is the invocation of retry's func it arose in.
NewExc(cls, msg) == [cls |-> cls, msg |-> msg, id |-> invocations]

\* `except types`: the class is one of types or a subclass of one of them.
\* Every class used here derives from Exception and from nothing else in types.
IsInstanceAny(cls, types) == TRUE
IsInstance(cls, types) == cls \in types \/ "Exception" \in types

\* A Python call: push the callee, or RecursionError in the caller when the
\* interpreter's frame limit is reached.  The caller continues at retpc.
Call(frame, retpc) ==
    IF Len(stack) < RecursionLimit
    THEN /\ stack' = Append(SetPc(retpc), frame)
         /\ ret' = NoRet
    ELSE /\ stack' = SetPc(retpc)
         /\ ret' = ExcRet(NewExc("RecursionError", <<"maximum recursion depth exceeded">>))

Return(v) == stack' = Pop /\ ret' = Val(v)
Raise(e) == stack' = Pop /\ ret' = ExcRet(e)
\* An exception no handler of the frame matches leaves the frame unchanged.
Propagate == stack' = Pop /\ ret' = ret

(* ------------------------------ retry --------------------------------- *)
\* utils.py:41  while attempt <= max_retries
WhileCondStrict(a, m) == a < m
WhileCond(a, m) == a <= m

\* utils.py:46  if attempt > max_retries: raise
ExhaustedEarly(a, m) == a >= m
Exhausted(a, m) == a > m

\* retry(func, max_retries, delay, exception_types): the call itself, utils.py:40
CallRetry(f, m, types, kw, retpc) ==
    /\ Call(Frame("retry", "while", "", NoArg), retpc)
    /\ func' = f
    /\ kwargs' = kw
    /\ max_retries' = m
    /\ exception_types' = types
    /\ attempt' = 0
    /\ invocations' = 0
    /\ sleeps' = 0

\* utils.py:41-43  loop test and the call of func
RetryAttempt ==
    /\ At("retry", "while")
    /\ IF WhileCond(attempt, max_retries)
       THEN /\ Call(Frame(func, "start", "", kwargs), "called")
            /\ invocations' = invocations + 1
       ELSE /\ Return(Str(None))
            /\ UNCHANGED invocations
    /\ UNCHANGED <<clientVars, now, func, max_retries, exception_types, attempt,
                   sleeps, kwargs, script, perfVars, mainVars, sentVars, update_invocations>>

\* utils.py:43-48  return of func, or the except clause up to the print
RetryOutcome ==
    /\ At("retry", "called")
    /\ IF ret.tag = "exc" /\ IsInstance(ret.exc.cls, exception_types)
       THEN /\ attempt' = attempt + 1
            /\ IF Exhausted(attempt + 1, max_retries)
               THEN Propagate
               ELSE stack' = SetPc("sleep") /\ ret' = NoRet
       ELSE /\ Propagate
            /\ UNCHANGED attempt
    /\ UNCHANGED <<clientVars, now, func, max_retries, exception_types,
                   invocations, sleeps, kwargs, script, perfVars, mainVars, sentVars, update_invocations>>

\* retry's delay argument: 300 in main.py (and by default), 0 in test_utils.py
DelayOf(f) == IF f = "op" THEN 0 ELSE delay

\* utils.py:49  time.sleep(delay)
RetrySleep ==
    /\ At("retry", "sleep")
    /\ now' = Min(now + DelayOf(func), Horizon)
    /\ sleeps' = sleeps + 1
    /\ stack' = SetPc("while")
    /\ UNCHANGED <<ret, clientVars, func, max_retries, exception_types, attempt,
                   invocations, kwargs, script, perfVars, mainVars, sentVars, update_invocations>>

(* ------------------- retry driven directly (tests) -------------------- *)
\* The n-th invocation of the scripted operation; the last outcome repeats.
ScriptOutcome(n) == script[Min(n, Len(script))]

\* test_utils.py:42,54,62  retry(op, max_retries=..., exception_types=...)
TestCall ==
    /\ At("test", "start")
    /\ CallRetry("op", max_retries, exception_types, NoArg, "done")
    /\ UNCHANGED <<clientVars, now, script, perfVars, mainVars, sentVars, update_invocations>>

\* test_utils.py:40-41, 48-52, 58-59  the operation under retry
ScriptedOperation ==
    /\ At("op", "start")
    /\ IF ScriptOutcome(invocations) = "ok"
       THEN Return(Str("success"))
       ELSE Raise(NewExc(ScriptOutcome(invocations), <<"failure">>))
    /\ UNCHANGED <<clientVars, now, retryVars, script, perfVars, mainVars, sentVars, update_invocations>>

\* the test ends with retry's result or with the exception retry let through
TestDone ==
    /\ At("test", "done")
    /\ stack' = <<>>
    /\ UNCHANGED <<ret, clientVars, now, retryVars, script, perfVars,
                   mainVars, sentVars, update_invocations>>

(* --------------------------- remote platform -------------------------- *)
Ids == {"c1", "c2"}
Budgets == {40, 80}
Spends == {0, 100}
Rates == {0, 150}

SeqUpTo(S, n) == UNION {[1..k -> S] : k \in 0..n}

\* A decoded JSON body {code, message, data: {...}}; the fields an endpoint
\* does not use are empty.
Body(code, token, ids, list) ==
    [code |-> code, access_token |-> token, advertiser_ids |-> ids, list |-> list]
ErrorBody == Body(40100, None, <<>>, <<>>)

CampaignItems == [campaign_id : Ids, budget : Budgets]
ReportRows == [campaign_id : Ids, spend : Spends, total_complete_payment_rate : Rates]

\* The bodies the platform can answer with on an endpoint.
Responses(ep) ==
    {ErrorBody} \cup
    CASE ep = "oauth2/access_token/" ->
           {Body(0, t, a, <<>>) : t \in {None, "tok1"}, a \in {<<>>, <<ADVERTISER_ID>>}}
      [] ep = "campaign/get/" ->
           {Body(0, None, <<>>, l) : l \in SeqUpTo(CampaignItems, MaxCampaigns)}
      [] ep = "report/integrated/get/" ->
           {Body(0, None, <<>>, l) : l \in SeqUpTo(ReportRows, MaxRows)}
      [] OTHER -> {Body(0, None, <<>>, <<>>)}

(* ------------------------- TikTokMarketingAPI ------------------------- *)
\* tik_tok_api.py:36  the cached token cannot be used at time t
NeedsToken(token, expiry, t) == token = None \/ expiry = NoneNum \/ t >= expiry

\* tik_tok_api.py:36-37,42  property access_token: test of the cache; the clock
\* read returns any time not before the last one observed
AccessTokenCheck ==
    /\ At("access_token", "check")
    /\ \E t \in Times :
         /\ t >= now
         /\ now' = t
         /\ IF NeedsToken(_access_token, _token_expiry, t)
            THEN Call(Frame("get_access_token", "start", "", NoArg), "got")
            ELSE Return(Str(_access_token))
    /\ UNCHANGED <<clientVars, retryVars, script, perfVars, mainVars, sentVars, update_invocations>>

\* tik_tok_api.py:38-42  property access_token: after get_access_token()
AccessTokenStore ==
    /\ At("access_token", "got")
    /\ IF ret.tag = "exc"
       THEN Propagate /\ UNCHANGED clientVars
       ELSE IF "access_token" \notin DOMAIN ret.val
            THEN /\ Raise(NewExc("TikTokAPIError", <<"Failed to obtain access token">>))
                 /\ UNCHANGED clientVars
            ELSE /\ _access_token' = ret.val.access_token
                 /\ _token_expiry' = now + TOKEN_LIFETIME
                 /\ Return(Str(ret.val.access_token))
    /\ UNCHANGED <<now, retryVars, script, perfVars, mainVars, sentVars, update_invocations>>

\* tik_tok_api.py:63-69  _make_request: the headers read self.access_token
MakeRequestHeaders ==
    /\ At("_make_request", "headers")
    /\ Call(Frame("access_token", "check", "", NoArg), "request")
    /\ UNCHANGED <<clientVars, now, retryVars, script, perfVars, mainVars, sentVars, update_invocations>>

\* tik_tok_api.py:71-85  _make_request: the HTTP exchange; it ends in a
\* requests.exceptions.RequestException (raise_for_status included), turned
\* into TikTokAPIError, or in a decoded body
MakeRequestSend ==
    /\ At("_make_request", "request")
    /\ IF ret.tag = "exc"
       THEN Propagate /\ UNCHANGED sentVars
       ELSE /\ calls' = [calls EXCEPT ![Top.ep] = @ + 1]
            /\ last_request' = [ep |-> Top.ep, token |-> ret.val.str, arg |-> Top.arg]
            /\ \/ Raise(NewExc("TikTokAPIError", <<"API request failed">>))
               \/ \E resp \in Responses(Top.ep) : Return(resp)
    /\ UNCHANGED <<clientVars, now, retryVars, script, perfVars, mainVars, update_invocations>>

\* except TikTokAPIError as e: raise TikTokAPIError(f"<prefix>: {e}")
Wrap(prefix, e) == [e EXCEPT !.msg = <<prefix>> \o e.msg]

\* The body of a client method after its request: the method's own
\* `except TikTokAPIError` wraps API errors, anything else passes through.
Rethrow(prefix) ==
    IF ret.exc.cls = "TikTokAPIError"
    THEN Raise(Wrap(prefix, ret.exc))
    ELSE Propagate

\* tik_tok_api.py:101-110  get_access_token: the request
GetAccessTokenCall ==
    /\ At("get_access_token", "start")
    /\ Call(Frame("_make_request", "headers", "oauth2/access_token/", NoArg), "response")
    /\ UNCHANGED <<clientVars, now, retryVars, script, perfVars, mainVars, sentVars, update_invocations>>

\* tik_tok_api.py:112-120  the token record get_access_token returns
TokenRecord(data) ==
    [access_token |-> data.access_token,
     advertiser_ids |-> data.advertiser_ids,
     ad_id_validity |-> \E i \in DOMAIN data.advertiser_ids : data.advertiser_ids[i] = ADVERTISER_ID]

\* tik_tok_api.py:112-125  get_access_token: the response
GetAccessTokenResult ==
    /\ At("get_access_token", "response")
    /\ IF ret.tag = "exc"
       THEN Rethrow("Failed to get access token")
       ELSE IF ret.val.code = 0
            THEN Return(TokenRecord(ret.val))
            ELSE Raise(NewExc("TikTokAPIError", <<"Failed to get access token", "API error">>))
    /\ UNCHANGED <<clientVars, now, retryVars, script, perfVars, mainVars, sentVars, update_invocations>>

\* tik_tok_api.py:130-135  get_campaigns: the request
GetCampaignsCall ==
    /\ At("get_campaigns", "start")
    /\ Call(Frame("_make_request", "headers", "campaign/get/", NoArg), "response")
    /\ UNCHANGED <<clientVars, now, retryVars, script, perfVars, mainVars, sentVars, update_invocations>>

\* tik_tok_api.py:137-143  get_campaigns: the response
GetCampaignsResult ==
    /\ At("get_campaigns", "response")
    /\ IF ret.tag = "exc"
       THEN Rethrow("Failed to get campaigns")
       ELSE IF ret.val.code = 0
            THEN Return(List(ret.val.list))
            ELSE Raise(NewExc("TikTokAPIError", <<"Failed to get campaigns", "API error">>))
    /\ UNCHANGED <<clientVars, now, retryVars, script, perfVars, mainVars, sentVars, update_invocations>>

\* tik_tok_api.py:161  {c["campaign_id"]: c["budget"] for c in campaigns}: a later
\* entry for an id replaces an earlier one
BudgetMap(list) ==
    [id \in {list[i].campaign_id : i \in DOMAIN list} |->
        LET last == CHOOSE i \in DOMAIN list :
                      /\ list[i].campaign_id = id
                      /\ \A j \in DOMAIN list : list[j].campaign_id = id => j <= i
        IN  list[last].budget]

\* tik_tok_api.py:196  campaign_budgets.get(campaign_id)
BudgetOf(budgets, id) == IF id \in DOMAIN budgets THEN budgets[id] ELSE NoneNum

\* tik_tok_api.py:198  spend > min_spend and payment_rate > min_payment_rate
EligibleLoose(spend, payment_rate, min_spend, min_payment_rate) ==
    spend >= min_spend /\ payment_rate >= min_payment_rate
Eligible(spend, payment_rate, min_spend, min_payment_rate) ==
    spend > min_spend /\ payment_rate > min_payment_rate

\* tik_tok_api.py:200-205  Campaign(...)
Campaign(stat, budgets) ==
    [campaign_id |-> stat.campaign_id,
     spend |-> stat.spend,
     total_complete_payment_rate |-> stat.total_complete_payment_rate,
     budget |-> BudgetOf(budgets, stat.campaign_id)]

\* An inner join: rows whose campaign is not in the budget map are dropped as well.
ValidCampaignsInnerJoin(stats, budgets, min_spend, min_payment_rate) ==
    LET kept == SelectSeq(stats,
                    LAMBDA s : /\ Eligible(s.spend, s.total_complete_payment_rate,
                                           min_spend, min_payment_rate)
                               /\ s.campaign_id \in DOMAIN budgets)
    IN  [i \in DOMAIN kept |-> Campaign(kept[i], budgets)]

\* tik_tok_api.py:186-208  the rows of the report that pass the filter, in order
ValidCampaigns(stats, budgets, min_spend, min_payment_rate) ==
    LET kept == SelectSeq(stats,
                    LAMBDA s : Eligible(s.spend, s.total_complete_payment_rate,
                                        min_spend, min_payment_rate))
    IN  [i \in DOMAIN kept |-> Campaign(kept[i], budgets)]

\* tik_tok_api.py:156-159  get_campaign_performance: the campaign list
PerformanceStart ==
    /\ At("get_campaign_performance", "start")
    /\ Call(Frame("get_campaigns", "start", "", NoArg), "listed")
    /\ UNCHANGED <<clientVars, now, retryVars, script, perfVars, mainVars, sentVars, update_invocations>>

\* tik_tok_api.py:163  if not campaign_ids
NoCampaignIdsNever(list) == FALSE
NoCampaignIds(list) == list = <<>>

\* tik_tok_api.py:159-180  get_campaign_performance: budgets, empty list, report request
PerformanceListed ==
    /\ At("get_campaign_performance", "listed")
    /\ IF ret.tag = "exc"
       THEN Rethrow("Failed to get campaign performance") /\ UNCHANGED campaign_budgets
       ELSE IF NoCampaignIds(ret.val.list)
            THEN Return(List(<<>>)) /\ UNCHANGED campaign_budgets
            ELSE /\ campaign_budgets' = BudgetMap(ret.val.list)
                 /\ Call(Frame("_make_request", "headers", "report/integrated/get/",
                               [campaign_ids |-> [i \in DOMAIN ret.val.list |-> ret.val.list[i].campaign_id]]),
                         "reported")
    /\ UNCHANGED <<clientVars, now, retryVars, script, stats_list, mainVars, sentVars, update_invocations>>

\* tik_tok_api.py:182-186, 210-211  get_campaign_performance: the report
PerformanceReported ==
    /\ At("get_campaign_performance", "reported")
    /\ IF ret.tag = "exc"
       THEN Rethrow("Failed to get campaign performance") /\ campaign_budgets' = EmptyMap /\ UNCHANGED stats_list
       ELSE IF ret.val.code # 0
            THEN /\ Raise(NewExc("TikTokAPIError", <<"Failed to get campaign performance", "API error">>))
                 /\ campaign_budgets' = EmptyMap
                 /\ UNCHANGED stats_list
            ELSE /\ stats_list' = ret.val.list
                 /\ stack' = SetPc("filter")
                 /\ ret' = NoRet
                 /\ UNCHANGED campaign_budgets
    /\ UNCHANGED <<clientVars, now, retryVars, script, mainVars, sentVars, update_invocations>>

\* tik_tok_api.py:187-208  get_campaign_performance: filter, join, return
PerformanceFilter ==
    /\ At("get_campaign_performance", "filter")
    /\ Return(List(ValidCampaigns(stats_list, campaign_budgets,
                                  Top.arg.min_spend, Top.arg.min_payment_rate)))
    /\ campaign_budgets' = EmptyMap
    /\ stats_list' = <<>>
    /\ UNCHANGED <<clientVars, now, retryVars, script, mainVars, sentVars, update_invocations>>

\* tik_tok_api.py:230-242  update_campaign_budget: the request
UpdateCall ==
    /\ At("update_campaign_budget", "start")
    /\ Call(Frame("_make_request", "headers", "campaign/update/",
                  [campaign_id |-> Top.arg.campaign_id, budget |-> Round2(Top.arg.new_budget)]),
            "response")
    /\ update_invocations' = update_invocations + 1
    /\ UNCHANGED <<clientVars, now, retryVars, script, perfVars, mainVars, sentVars>>

\* tik_tok_api.py:244-250  update_campaign_budget: the response
UpdateResult ==
    /\ At("update_campaign_budget", "response")
    /\ IF ret.tag = "exc"
       THEN Rethrow("Error updating campaign budget")
       ELSE IF ret.val.code # 0
            THEN Raise(NewExc("TikTokAPIError", <<"Error updating campaign budget",
                                                  "Failed to update campaign budget">>))
            ELSE Return(ret.val)
    /\ UNCHANGED <<clientVars, now, retryVars, script, perfVars, mainVars, sentVars, update_invocations>>

(* ------------------------------- main --------------------------------- *)
Line(msg, cid, e) == [msg |-> msg, cid |-> cid, exc |-> e]
NoLine == Line("", "", NoExc)
NoRequest == [ep |-> "", token |-> None, arg |-> NoArg]
Endpoints == {"oauth2/access_token/", "campaign/get/", "report/integrated/get/", "campaign/update/"}

\* print(...) in main; the three prints of a successful authentication
\* (main.py:21-23) count as one line
Output(line) == printed' = printed + 1 /\ last_line' = line

\* main returns, or ends in an exception nothing caught
MainReturn == stack' = <<>> /\ ret' = NoRet
MainCrash == stack' = <<>> /\ ret' = ret

\* main.py:77-78  the exit status of the process once main() is over: 1 when an
\* exception left main, 0 when main returned (it never calls sys.exit)
ExitStatus == IF ret.tag = "exc" THEN 1 ELSE 0

\* main.py:20  retry(api.get_access_token, ...)
MainAuthenticate ==
    /\ At("main", "step1")
    /\ CallRetry("get_access_token", MAIN_MAX_RETRIES, MAIN_EXCEPTION_TYPES, NoArg, "authenticated")
    /\ UNCHANGED <<clientVars, now, script, perfVars, mainVars, sentVars, update_invocations>>

\* main.py:24-26  after a failed authentication: `return`
AfterAuthFailureGoOn == "step2"
AfterAuthFailure == "return"

\* main.py:42-44  after a failed fetch: `return`
AfterFetchFailureGoOn == "for"
AfterFetchFailure == "return"

\* The handler of a run-fatal step: print, then leave main or (never in the
\* source) go on at pc.
Abandon(pc) == IF pc = "return" THEN MainReturn ELSE stack' = SetPc(pc) /\ ret' = NoRet

\* main.py:21-26  step 1: the token is printed, or the failure
MainAuthenticated ==
    /\ At("main", "authenticated")
    /\ IF ret.tag = "exc"
       THEN IF IsInstance(ret.exc.cls, {"TikTokAPIError"})
            THEN /\ Output(Line("Failed to get access token after retries", "", ret.exc))
                 /\ Abandon(AfterAuthFailure)
            ELSE MainCrash /\ UNCHANGED outputVars
       ELSE /\ Output(Line("Access Token", "", NoExc))
            /\ stack' = SetPc("step2")
            /\ ret' = NoRet
    /\ UNCHANGED <<clientVars, now, retryVars, script, perfVars, campaigns, idx, sentVars, update_invocations>>

\* main.py:30-38  retry(api.get_campaign_performance, ...)
MainFetch ==
    /\ At("main", "step2")
    /\ CallRetry("get_campaign_performance", MAIN_MAX_RETRIES, MAIN_EXCEPTION_TYPES,
                 [min_spend |-> MIN_SPEND, min_payment_rate |-> MIN_PAYMENT_RATE],
                 "fetched")
    /\ UNCHANGED <<clientVars, now, script, perfVars, mainVars, sentVars, update_invocations>>

\* main.py:39-44  step 2: the campaigns, none, or the failure
MainFetched ==
    /\ At("main", "fetched")
    /\ IF ret.tag = "exc"
       THEN IF IsInstance(ret.exc.cls, {"TikTokAPIError"})
            THEN /\ Output(Line("Failed to get campaign performance after retries", "", ret.exc))
                 /\ Abandon(AfterFetchFailure)
                 /\ UNCHANGED <<campaigns, idx>>
            ELSE MainCrash /\ UNCHANGED mainVars
       ELSE IF ret.val.list = <<>>
            THEN /\ Output(Line("No campaigns met the criteria.", "", NoExc))
                 /\ MainReturn
                 /\ UNCHANGED <<campaigns, idx>>
            ELSE /\ campaigns' = ret.val.list
                 /\ idx' = 1
                 /\ stack' = SetPc("for")
                 /\ ret' = NoRet
                 /\ UNCHANGED outputVars
    /\ UNCHANGED <<clientVars, now, retryVars, script, perfVars, sentVars, update_invocations>>

\* main.py:47  for campaign in campaigns
MainFor ==
    /\ At("main", "for")
    /\ IF idx <= Len(campaigns)
       THEN stack' = SetPc("policy") /\ ret' = NoRet
       ELSE MainReturn
    /\ UNCHANGED <<clientVars, now, retryVars, script, perfVars, mainVars, sentVars, update_invocations>>

\* main.py:47  the for loop takes the campaigns one by one, in list order
NextIndexSkip(i) == i + 2
NextIndexStay(i) == i
NextIndex(i) == i + 1

\* The loop goes on to the next campaign after printing line.
NextCampaign(line) ==
    /\ Output(line)
    /\ idx' = NextIndex(idx)
    /\ stack' = SetPc("for")
    /\ ret' = NoRet
    /\ UNCHANGED campaigns

\* main.py:49-50  calculate_roas(campaign), calculate_adjustment_factor(roas);
\* a zero spend raises ZeroDivisionError, caught at main.py:74
MainPolicy ==
    /\ At("main", "policy")
    /\ IF campaigns[idx].spend = 0
       THEN NextCampaign(Line("Unexpected error", campaigns[idx].campaign_id,
                              NewExc("ZeroDivisionError", <<"float division by zero">>)))
       ELSE stack' = SetPc("budget") /\ ret' = NoRet /\ UNCHANGED mainVars
    /\ UNCHANGED <<clientVars, now, retryVars, script, perfVars, sentVars, update_invocations>>

\* main.py:53  if current_budget is None
BudgetUnknownNever(current_budget) == FALSE
BudgetUnknown(current_budget) == current_budget = NoneNum

\* main.py:51-55  the campaign is skipped when its budget is unknown
MainBudget ==
    /\ At("main", "budget")
    /\ IF BudgetUnknown(campaigns[idx].budget)
       THEN NextCampaign(Line("Skipping campaign", campaigns[idx].campaign_id, NoExc))
       ELSE stack' = SetPc("new_budget") /\ ret' = NoRet /\ UNCHANGED mainVars
    /\ UNCHANGED <<clientVars, now, retryVars, script, perfVars, sentVars, update_invocations>>

\* main.py:57  the new budget of a campaign
NewBudgetOf(campaign) ==
    calculate_new_budget(campaign.budget, calculate_adjustment_factor(calculate_roas(campaign)))

\* main.py:59  if new_budget != current_budget
BudgetChangedAlways(new_budget, current_budget) == TRUE
BudgetChanged(new_budget, current_budget) == ~REq(new_budget, RInt(current_budget))

\* main.py:57-70  the update through retry, or "No budget change"
MainNewBudget ==
    /\ At("main", "new_budget")
    /\ LET campaign == campaigns[idx]
           new_budget == NewBudgetOf(campaign)
       IN  IF BudgetChanged(new_budget, campaign.budget)
           THEN /\ CallRetry("update_campaign_budget", MAIN_MAX_RETRIES, MAIN_EXCEPTION_TYPES,
                             [campaign_id |-> campaign.campaign_id, new_budget |-> new_budget],
                             "updated")
                /\ UNCHANGED mainVars
           ELSE /\ NextCampaign(Line("No budget change", campaign.campaign_id, NoExc))
                /\ UNCHANGED retryVars
    /\ UNCHANGED <<clientVars, now, script, perfVars, sentVars, update_invocations>>

\* main.py:74  except Exception
CaughtByLoopNone(cls) == FALSE
CaughtByLoop(cls) == IsInstance(cls, {"Exception"})

\* main.py:68, 72-75  the update's outcome is printed
MainUpdated ==
    /\ At("main", "updated")
    /\ LET cid == campaigns[idx].campaign_id
       IN  IF ret.tag = "exc"
           THEN IF IsInstance(ret.exc.cls, {"TikTokAPIError"})
                THEN NextCampaign(Line("Error updating campaign", cid, ret.exc))
                ELSE IF CaughtByLoop(ret.exc.cls)
                     THEN NextCampaign(Line("Unexpected error", cid, ret.exc))
                     ELSE MainCrash /\ UNCHANGED mainVars
           ELSE NextCampaign(Line("Updated campaign", cid, NoExc))
    /\ UNCHANGED <<clientVars, now, retryVars, script, perfVars, sentVars, update_invocations>>

(* ------------------------- initial states ----------------------------- *)
\* TikTokMarketingAPI.__init__ leaves both token fields None.  No statement
\* of the class ever assigns them a token (see AccessTokenStore: it runs only
\* after a get_access_token() that was started with an unusable cache has
\* returned, and that call needs a usable cache itself), so a client that
\* holds a token holds one its caller put there.  Both kinds of client are
\* initial states: the one main() constructs, and one whose fields hold the
\* token "tok0" with an expiry anywhere on the clock or beyond it.
FreshClient == _access_token = None /\ _token_expiry = NoneNum
ClientWithToken ==
    /\ _access_token = "tok0"
    /\ _token_expiry \in Times \cup {Horizon + TOKEN_LIFETIME}

Scripts == UNION {[1..k -> {"ok", "ValueError", "TypeError"}] : k \in 1..MaxScript}

InitCommon ==
    /\ ret = NoRet
    /\ now = 0
    /\ func = ""
    /\ attempt = 0
    /\ invocations = 0
    /\ sleeps = 0
    /\ kwargs = NoArg
    /\ campaign_budgets = EmptyMap
    /\ stats_list = <<>>
    /\ campaigns = <<>>
    /\ idx = 0
    /\ calls = [ep \in Endpoints |-> 0]
    /\ last_request = NoRequest
    /\ printed = 0
    /\ last_line = NoLine
    /\ update_invocations = 0

\* main.py:6-12
InitMain ==
    /\ stack = <<Frame("main", "step1", "", NoArg)>>
    /\ FreshClient \/ ClientWithToken
    /\ max_retries = 0
    /\ exception_types = {}
    /\ script = <<"ok">>

\* test_utils.py:39-62, over all scripts, retry counts and two exception_types
InitTest ==
    /\ stack = <<Frame("test", "start", "", NoArg)>>
    /\ FreshClient
    /\ max_retries \in 0..MaxRetriesArg
    /\ exception_types \in {{"Exception"}, {"ValueError"}}
    /\ script \in Scripts

Init == InitCommon /\ (InitMain \/ InitTest)

Next ==
    \/ RetryAttempt \/ RetryOutcome \/ RetrySleep
    \/ TestCall \/ ScriptedOperation \/ TestDone
    \/ AccessTokenCheck \/ AccessTokenStore
    \/ MakeRequestHeaders \/ MakeRequestSend
    \/ GetAccessTokenCall \/ GetAccessTokenResult
    \/ GetCampaignsCall \/ GetCampaignsResult
    \/ PerformanceStart \/ PerformanceListed \/ PerformanceReported \/ PerformanceFilter
    \/ UpdateCall \/ UpdateResult
    \/ MainAuthenticate \/ MainAuthenticated
    \/ MainFetch \/ MainFetched
    \/ MainFor \/ MainPolicy \/ MainBudget \/ MainNewBudget \/ MainUpdated

Spec == Init /\ [][Next]_vars

\* The interpreter runs the program to its end: a step is taken whenever one
\* is possible (every request is answered or times out, every sleep ends).
FairSpec == Spec /\ WF_vars(Next)

(* ------------- BudgetPolicy and the filter driven directly ------------ *)
\* The pure functions are applied to inputs drawn from bounded sets, the way
\* test_utils.py:9-36 applies them to single inputs.  The frame keeps the
\* inputs and the results computed so far.
PolicyBudgets == {10 * b : b \in 0..MaxBudgetTens}
PolicyCampaigns ==
    [campaign_id : {"c1"}, spend : 0..MaxPolicySpend,
     total_complete_payment_rate : 0..MaxPolicyRate, budget : PolicyBudgets]
\* adjustment factors handed to calculate_new_budget directly: quarters in
\* [-MAX_ADJUSTMENT, MAX_ADJUSTMENT]
Factors == {<<k, 4>> : k \in -3..3}
Zero == <<0, 1>>
PolicyLocals(campaign, adjustment_factor) ==
    [campaign |-> campaign, roas |-> Zero, adjustment_factor |-> adjustment_factor,
     new_budget |-> Zero]
SetLocals(pc, locals) == [stack EXCEPT ![Len(stack)].pc = pc, ![Len(stack)].arg = locals]

\* Report rows and thresholds for the filter; the row at position i is for
\* the i-th campaign id.
FilterValues == 0..(MaxThreshold + 1)
FilterStats ==
    {<<>>}
    \cup {<<[campaign_id |-> "c1", spend |-> s, total_complete_payment_rate |-> r]>> :
              s \in FilterValues, r \in FilterValues}
    \cup {<<[campaign_id |-> "c1", spend |-> s1, total_complete_payment_rate |-> r],
             [campaign_id |-> "c2", spend |-> s2, total_complete_payment_rate |-> r]>> :
              s1 \in FilterValues, s2 \in FilterValues, r \in FilterValues}
FilterInputs ==
    [stats : FilterStats, budgets : {BudgetMap(<<[campaign_id |-> "c1", budget |-> 80]>>)},
     min_spend : 0..MaxThreshold, min_payment_rate : 0..MaxThreshold]

\* test_utils.py:9-11  calculate_roas(campaign)
TestRoas ==
    /\ At("test_policy", "roas")
    /\ IF Top.arg.campaign.spend = 0
       THEN Raise(NewExc("ZeroDivisionError", <<"division by zero">>))
       ELSE /\ stack' = SetLocals("adjustment",
                            [Top.arg EXCEPT !.roas = calculate_roas(Top.arg.campaign)])
            /\ ret' = NoRet
    /\ UNCHANGED <<clientVars, now, retryVars, script, perfVars, mainVars, sentVars, update_invocations>>

\* test_utils.py:14-23  calculate_adjustment_factor(roas)
TestAdjustment ==
    /\ At("test_policy", "adjustment")
    /\ stack' = SetLocals("new_budget",
                   [Top.arg EXCEPT !.adjustment_factor = calculate_adjustment_factor(Top.arg.roas)])
    /\ ret' = NoRet
    /\ UNCHANGED <<clientVars, now, retryVars, script, perfVars, mainVars, sentVars, update_invocations>>

\* test_utils.py:26-36  calculate_new_budget(current_budget, adjustment_factor)
TestNewBudget ==
    /\ At("test_policy", "new_budget") \/ At("test_new_budget", "new_budget")
    /\ stack' = SetLocals("done",
                   [Top.arg EXCEPT !.new_budget =
                        calculate_new_budget(Top.arg.campaign.budget, Top.arg.adjustment_factor)])
    /\ ret' = NoRet
    /\ UNCHANGED <<clientVars, now, retryVars, script, perfVars, mainVars, sentVars, update_invocations>>

\* tik_tok_api.py:186-208  the filter loop on a report and thresholds
TestFilter ==
    /\ At("test_filter", "filter")
    /\ stack' = SetPc("done")
    /\ ret' = Val(List(ValidCampaigns(Top.arg.stats, Top.arg.budgets,
                                      Top.arg.min_spend, Top.arg.min_payment_rate)))
    /\ UNCHANGED <<clientVars, now, retryVars, script, perfVars, mainVars, sentVars, update_invocations>>

InitFunctions ==
    /\ InitCommon
    /\ FreshClient
    /\ max_retries = 0
    /\ exception_types = {}
    /\ script = <<"ok">>
    /\ \/ \E c \in PolicyCampaigns :
            stack = <<Frame("test_policy", "roas", "", PolicyLocals(c, Zero))>>
       \/ \E c \in PolicyCampaigns, f \in Factors :
            /\ c.spend = 1 /\ c.total_complete_payment_rate = 0
            /\ stack = <<Frame("test_new_budget", "new_budget", "", PolicyLocals(c, f))>>
       \/ \E i \in FilterInputs :
            stack = <<Frame("test_filter", "filter", "", i)>>

FunctionNext == TestRoas \/ TestAdjustment \/ TestNewBudget \/ TestFilter

FunctionSpec == InitFunctions /\ [][FunctionNext]_vars

(* ============================== claims ================================ *)
TokenCalls == calls["oauth2/access_token/"]
UpdateCalls == calls["campaign/update/"]
\* main's program counter, "" outside main
MainPc == IF stack # <<>> /\ stack[1].fn = "main" THEN stack[1].pc ELSE ""
\* retry's func has just ended and retry looks at what it handed back
FuncEnded(f) == At("retry", "called") /\ func = f

(* ---- C1 ---- *)
\* C1 (as claimed): get_access_token() on a client without a cached token
\* issues exactly one token-endpoint request per call and ends with a token
\* record or with TikTokAPIError.
C1_AuthenticateOneCall ==
    (FuncEnded("get_access_token") /\ _access_token = None) =>
        /\ TokenCalls = invocations
        /\ ret.tag = "val" \/ ret.exc.cls = "TikTokAPIError"

(* ---- C2 ---- *)
AuthenticatedEndpoints == Endpoints \ {"oauth2/access_token/"}

Tested == func = "op"
Retryable(o) == o # "ok" /\ (o \in exception_types \/ "Exception" \in exception_types)
\* the script is k retryable failures, then a success
FailsThenSucceeds(k) ==
    /\ Len(script) = k + 1
    /\ \A i \in 1..k : Retryable(script[i])
    /\ script[k + 1] = "ok"
AlwaysFails == \A i \in DOMAIN script : Retryable(script[i])
Running == stack # <<>>

\* C3: an operation that raises a retryable failure k times and then succeeds,
\* with max_retries >= k, makes retry return the success value after exactly
\* k + 1 invocations and k sleeps (and retry never stalls or exceeds them).
C3_RetryFailsThenSucceeds ==
    \A k \in 0..MaxScript :
        (Tested /\ FailsThenSucceeds(k) /\ max_retries >= k) =>
            /\ invocations <= k + 1 /\ sleeps <= k
            /\ Running => ENABLED Next
            /\ ~Running => /\ ret.tag = "val" /\ ret.val = Str("success")
                           /\ invocations = k + 1 /\ sleeps = k

C3_Witness ==
    /\ Tested /\ ~Running /\ FailsThenSucceeds(2) /\ max_retries = 2
    /\ ret.tag = "val" /\ invocations = 3 /\ sleeps = 2

\* C4: an operation that always raises a retryable failure is invoked exactly
\* max_retries + 1 times with max_retries sleeps, none after the last attempt,
\* and retry ends with the exception of the last invocation, unchanged.
C4_RetryAlwaysFails ==
    (Tested /\ AlwaysFails) =>
        /\ invocations <= max_retries + 1 /\ sleeps <= max_retries
        /\ Running => ENABLED Next
        /\ ~Running => /\ invocations = max_retries + 1 /\ sleeps = max_retries
                       /\ ret.tag = "exc"
                       /\ ret.exc = [cls |-> ScriptOutcome(max_retries + 1),
                                     msg |-> <<"failure">>, id |-> max_retries + 1]

C4_Witness ==
    /\ Tested /\ ~Running /\ AlwaysFails /\ max_retries = 2
    /\ script = <<"ValueError", "TypeError">>
    /\ invocations = 3 /\ sleeps = 2 /\ ret.tag = "exc" /\ ret.exc.cls = "TypeError"

\* C5: a failure of a kind outside exception_types on the first attempt leaves
\* retry at once: one invocation, no sleep, attempt still 0, the same exception.
C5_NonRetryablePropagates ==
    (Tested /\ script[1] # "ok" /\ ~Retryable(script[1])) =>
        /\ invocations <= 1 /\ sleeps = 0 /\ attempt = 0
        /\ Running => ENABLED Next
        /\ ~Running => /\ invocations = 1
                       /\ ret.tag = "exc"
                       /\ ret.exc = [cls |-> script[1], msg |-> <<"failure">>, id |-> 1]

C5_Witness ==
    /\ Tested /\ ~Running /\ script[1] = "TypeError" /\ exception_types = {"ValueError"}
    /\ max_retries = 2 /\ invocations = 1 /\ ret.tag = "exc"

(* ---- C6 ---- *)
FatalLine(f) ==
    IF f = "get_access_token" THEN "Failed to get access token after retries"
    ELSE "Failed to get campaign performance after retries"
FatalSteps == {"get_access_token", "get_campaign_performance"}

\* C6: when step 1 or step 2 has failed with its retries exhausted, no budget
\* update has been requested, main prints the failure it was handed and
\* returns, and nothing is requested after that.
C6_FatalFailureEndsRun ==
    /\ (MainPc \in {"authenticated", "fetched"} /\ At("main", MainPc) /\ ret.tag = "exc") =>
            UpdateCalls = 0
    /\ (func \in FatalSteps /\ attempt > max_retries /\ Len(stack) <= 1
            /\ MainPc \notin {"authenticated", "fetched"}) =>
            /\ ~Running /\ ret.tag = "none"
            /\ last_line.msg = FatalLine(func)
            /\ last_line.exc.cls = "TikTokAPIError" /\ last_line.exc.id = invocations
            /\ UpdateCalls = 0
    /\ (\E f \in FatalSteps : last_line.msg = FatalLine(f)) =>
            ~Running /\ UpdateCalls = 0

C6_Witness ==
    /\ ~Running /\ func = "get_campaign_performance" /\ attempt > max_retries
    /\ last_line.msg = FatalLine("get_campaign_performance")
    /\ calls["campaign/get/"] = 3 /\ sleeps = 2

(* ---- C7 ---- *)
Outcomes == {"Updated campaign", "No budget change", "Skipping campaign",
             "Error updating campaign", "Unexpected error"}
InLoop == MainPc \in {"for", "policy", "budget", "new_budget", "updated"}

\* C7: once the loop over the fetched campaigns has begun, every campaign gets
\* exactly one outcome line, in order, whatever fails while it is processed,
\* and the run goes on until the last campaign has its line and main returns.
C7_EveryCampaignProcessed ==
    /\ [](InLoop => /\ printed = idx
                    /\ idx > 1 => /\ last_line.msg \in Outcomes
                                  /\ last_line.cid = campaigns[idx - 1].campaign_id)
    /\ (InLoop ~> (/\ ~Running /\ ret.tag = "none"
                   /\ idx = Len(campaigns) + 1
                   /\ printed = Len(campaigns) + 1))

C7_Witness ==
    /\ ~Running /\ ret.tag = "none" /\ Len(campaigns) = 2 /\ idx = 3 /\ printed = 3
    /\ last_line.msg = "Updated campaign"
    /\ UpdateCalls = 4

(* ---- C8 ---- *)
PolicyCalled == {"budget", "new_budget", "updated"}
NewBudgetCalled == {"updated"}

ReportIds == {stats_list[j].campaign_id : j \in DOMAIN stats_list}

PassesFilter(j) ==
    /\ stats_list[j].spend > MIN_SPEND
    /\ stats_list[j].total_complete_payment_rate > MIN_PAYMENT_RATE

NewBudgetDone == At("test_policy", "done") \/ At("test_new_budget", "done")
\* calculate_adjustment_factor has been applied
AdjustmentDone == At("test_policy", "new_budget") \/ At("test_policy", "done")
RawAdjustment(roas) == RDiv(RSub(roas, TARGET_ROAS), TARGET_ROAS)
InBand(f) == RLeq(RNeg(MAX_ADJUSTMENT), f) /\ RLeq(f, MAX_ADJUSTMENT)
Product(current_budget, f) == RMul(RInt(current_budget), RAdd(RInt(1), f))

\* C11 (as claimed): for every current budget, an adjustment factor of 0
\* leaves the budget as it is.
C11_ZeroFactorKeepsBudget ==
    (NewBudgetDone /\ REq(Top.arg.adjustment_factor, Zero)) =>
        REq(Top.arg.new_budget, RInt(Top.arg.campaign.budget))

\* C11 (amended): with an adjustment factor of 0 the new budget is the
\* current budget when that is at least MIN_BUDGET, and MIN_BUDGET otherwise.
C11_ZeroFactorKeepsBudgetAboveMinimum ==
    (NewBudgetDone /\ REq(Top.arg.adjustment_factor, Zero)) =>
        IF Top.arg.campaign.budget >= MIN_BUDGET
        THEN REq(Top.arg.new_budget, RInt(Top.arg.campaign.budget))
        ELSE REq(Top.arg.new_budget, RInt(MIN_BUDGET))

C11_Witness ==
    /\ At("test_policy", "done") /\ REq(Top.arg.adjustment_factor, Zero)
    /\ Top.arg.campaign.budget = 80 /\ REq(Top.arg.new_budget, RInt(80))

\* C14: for every roas > 0 the adjustment factor lies in
\* [-MAX_ADJUSTMENT, MAX_ADJUSTMENT] and is (roas - TARGET_ROAS) / TARGET_ROAS
\* whenever that value lies in the interval.
C14_AdjustmentClamped ==
    (AdjustmentDone /\ RLess(Zero, Top.arg.roas)) =>
        /\ InBand(Top.arg.adjustment_factor)
        /\ InBand(RawAdjustment(Top.arg.roas)) =>
               REq(Top.arg.adjustment_factor, RawAdjustment(Top.arg.roas))

\* a roas of 1/3, whose raw adjustment -7/9 is clamped to -3/4
C14_Witness ==
    /\ At("test_policy", "new_budget") /\ REq(Top.arg.roas, <<1, 3>>)
    /\ ~InBand(RawAdjustment(Top.arg.roas))
    /\ REq(Top.arg.adjustment_factor, RNeg(MAX_ADJUSTMENT))

\* C15: for every current budget >= 0 and factor in the interval the new
\* budget is at least MIN_BUDGET: the product current_budget * (1 + factor)
\* when that is at least MIN_BUDGET, and MIN_BUDGET otherwise.
C15_NewBudgetFloor ==
    (NewBudgetDone /\ Top.arg.campaign.budget >= 0 /\ InBand(Top.arg.adjustment_factor)) =>
        LET product == Product(Top.arg.campaign.budget, Top.arg.adjustment_factor)
        IN  /\ RLeq(RInt(MIN_BUDGET), Top.arg.new_budget)
            /\ IF RLeq(RInt(MIN_BUDGET), product)
               THEN REq(Top.arg.new_budget, product)
               ELSE REq(Top.arg.new_budget, RInt(MIN_BUDGET))

\* test_calculate_new_budget_below_minimum: 40 * (1 - 0.5) = 20 becomes 50
C15_Witness ==
    /\ At("test_new_budget", "done") /\ Top.arg.campaign.budget = 40
    /\ REq(Top.arg.adjustment_factor, <<-1, 2>>)
    /\ REq(Top.arg.new_budget, RInt(MIN_BUDGET))

(* ---- C13: the eligibility filter on drawn reports and thresholds ---- *)
Retained(row) == \E i \in DOMAIN ret.val.list : ret.val.list[i].campaign_id = row.campaign_id

\* C13: a report row is retained if and only if spend > min_spend and
\* payment rate > min_payment_rate; a row with spend equal to min_spend, or
\* rate equal to min_payment_rate, is dropped, and one with spend one above
\* min_spend is retained when its rate exceeds min_payment_rate.
C13_StrictFilter ==
    At("test_filter", "done") =>
        \A j \in DOMAIN Top.arg.stats :
            LET row == Top.arg.stats[j]
            IN  /\ Retained(row) <=>
                       (/\ row.spend > Top.arg.min_spend
                        /\ row.total_complete_payment_rate > Top.arg.min_payment_rate)
                /\ row.spend = Top.arg.min_spend => ~Retained(row)
                /\ row.total_complete_payment_rate = Top.arg.min_payment_rate => ~Retained(row)
                /\ (/\ row.spend = Top.arg.min_spend + 1
                    /\ row.total_complete_payment_rate > Top.arg.min_payment_rate) => Retained(row)

\* thresholds 1 and 1: the row with spend 1 is dropped, the one with spend 2 kept
C13_Witness ==
    /\ At("test_filter", "done") /\ Top.arg.min_spend = 1 /\ Top.arg.min_payment_rate = 1
    /\ Len(Top.arg.stats) = 2
    /\ Top.arg.stats[1].spend = 1 /\ Top.arg.stats[2].spend = 2
    /\ Top.arg.stats[1].total_complete_payment_rate = 2
    /\ Len(ret.val.list) = 1 /\ ret.val.list[1].campaign_id = "c2"

(* ---- C12 ---- *)
NoCampaignsLine == "No campaigns met the criteria."
ReportCalls == calls["report/integrated/get/"]

\* C12: when the campaign list comes back empty, get_campaign_performance
\* returns an empty list at once, with no request made; main, handed an
\* empty list, prints "No campaigns met the criteria." and returns; and after
\* that line nothing runs and no budget update has been requested.
C12_EmptyListEndsRun ==
    /\ [][(At("get_campaign_performance", "listed") /\ ret.tag = "val" /\ ret.val.list = <<>>) =>
             /\ stack' = Pop /\ ret' = Val(List(<<>>))
             /\ calls' = calls]_vars
    /\ [][(At("main", "fetched") /\ ret.tag = "val" /\ ret.val.list = <<>>) =>
             /\ stack' = <<>> /\ last_line'.msg = NoCampaignsLine
             /\ calls' = calls]_vars
    /\ [](last_line.msg = NoCampaignsLine => ~Running /\ UpdateCalls = 0)

\* a run whose only requests were the token request and one campaign list
C12_Witness ==
    /\ ~Running /\ last_line.msg = NoCampaignsLine
    /\ last_request.ep = "campaign/get/" /\ calls["campaign/get/"] = 1
    /\ ReportCalls = 0 /\ UpdateCalls = 0

(* ---- C16 ---- *)
\* the new budget of the campaign the loop is at differs from its current one
Differs == ~REq(NewBudgetOf(campaigns[idx]), RInt(campaigns[idx].budget))
UpdateRunning == Running /\ MainPc = "updated"

\* C16: for a campaign with a known budget, main calls update_campaign_budget
\* (through retry, with the campaign's id and new budget) if the new budget
\* differs from the current one, and otherwise prints "No budget change" and
\* moves on with nothing called; an update is running, and an update request
\* is sent, only for a campaign whose new budget differs.
C16_UpdateIffChanged ==
    /\ [][At("main", "new_budget") =>
             IF Differs
             THEN /\ func' = "update_campaign_budget"
                  /\ kwargs'.campaign_id = campaigns[idx].campaign_id
                  /\ REq(kwargs'.new_budget, NewBudgetOf(campaigns[idx]))
                  /\ stack'[Len(stack')].fn = "retry"
                  /\ UNCHANGED <<idx, outputVars>>
             ELSE /\ last_line' = Line("No budget change", campaigns[idx].campaign_id, NoExc)
                  /\ Len(stack') = 1 /\ idx' = idx + 1
                  /\ UNCHANGED <<func, calls>>]_vars
    /\ [](UpdateRunning => campaigns[idx].budget # NoneNum /\ Differs)
    /\ [][UpdateCalls' # UpdateCalls =>
             /\ UpdateRunning /\ Differs
             /\ last_request'.arg.campaign_id = campaigns[idx].campaign_id]_vars

\* a campaign with budget 40 and roas 1.5: the new budget 50 is being sent
C16_Witness ==
    /\ UpdateRunning /\ Differs /\ UpdateCalls = 1
    /\ campaigns[idx].budget = 40
    /\ last_request.ep = "campaign/update/"
    /\ last_request.arg = [campaign_id |-> campaigns[idx].campaign_id, budget |-> 5000]

(* ---- C17 ---- *)
\* main is computing the policy for the campaign the loop is at
Computing == MainPc \in {"policy", "budget", "new_budget"}
\* a frame of fn is on the stack
OnStack(fn) == \E i \in DOMAIN stack : stack[i].fn = fn

\* C17: the loop takes the campaigns in the order the fetch returned them, one
\* at a time: it moves from a campaign to the next one only from main itself,
\* with retry and the update it drives (attempts and sleeps) over; while the
\* policy is computed nothing of an update is on the stack; and every update
\* attempt and update request is for the campaign the loop is at.
C17_OneCampaignAtATime ==
    /\ [][InLoop => campaigns' = campaigns]_vars
    /\ [][(InLoop /\ idx' # idx) =>
             /\ idx' = idx + 1
             /\ Len(stack) = 1 /\ ~OnStack("retry") /\ ~OnStack("update_campaign_budget")]_vars
    /\ [](Computing => Len(stack) = 1)
    /\ [](OnStack("update_campaign_budget") =>
             /\ MainPc = "updated" /\ OnStack("retry")
             /\ kwargs.campaign_id = campaigns[idx].campaign_id)
    /\ [][(sleeps' = sleeps + 1 /\ func = "update_campaign_budget") =>
             MainPc = "updated" /\ idx' = idx]_vars

\* the first campaign's update failed on all three attempts, two sleeps
\* between them; only then the second campaign's first request is sent
C17_Witness ==
    /\ At("update_campaign_budget", "response") /\ idx = 2
    /\ last_line.msg = "Error updating campaign" /\ last_line.cid = campaigns[1].campaign_id
    /\ UpdateCalls = 4 /\ invocations = 1

(* ---- C18 ---- *)
MainEnded == ~Running /\ func \in {"get_access_token", "get_campaign_performance", "update_campaign_budget"}
\* main gave up at step 1 or step 2, having printed the failure
Aborted == MainEnded /\ \E f \in FatalSteps : last_line.msg = FatalLine(f)
\* main went through its loop to the end
CompletedLoop == MainEnded /\ campaigns # <<>> /\ idx = Len(campaigns) + 1

StepTwoReadsToken == MainPc = "fetched" /\ At("access_token", "check")
\* step 1 is over and main looks at what retry handed back
StepOneOver == At("main", "authenticated")

UpdateRetry == func = "update_campaign_budget"
PerCampaign == MAIN_MAX_RETRIES + 1
\* an update has answered with success
UpdateSucceeded == FuncEnded("update_campaign_budget") /\ ret.tag = "val"

====
